---------------------------- MODULE Spec2Model ----------------------------
(***************************************************************************)
(* Model of the logo placer page (src/src/app/page.tsx, the revision with  *)
(* background removal, and src/unnamed/part_000, the revision without).   *)
(*                                                                         *)
(* The page computes with JavaScript Numbers, i.e. IEEE-754 binary64.      *)
(* The first part of the module is that arithmetic: a finite Number is     *)
(* s * m * 2^e with m a natural number of at most 53 bits, kept as a       *)
(* sequence of limbs because the checker's integers have 32 bits.  Every   *)
(* operation computes the exact result and rounds it to nearest, ties to   *)
(* even, as the language does.  Exponent overflow, subnormals, NaN and     *)
(* the sign of zero do not occur for the magnitudes the page handles       *)
(* (image sides below 2^15, percentages 0..100) and are not modelled.      *)
(***************************************************************************)
EXTENDS Integers, Sequences, FiniteSets, TLC

\* ------------------------------------------------------------------------
\* Natural numbers of any size: little-endian limbs, no leading zero limb.
\* ------------------------------------------------------------------------
LimbBits == 15
LimbBase == 2^15

Limb(a, i) == IF i <= Len(a) THEN a[i] ELSE 0
Max2(x, y) == IF x >= y THEN x ELSE y
Min2(x, y) == IF x <= y THEN x ELSE y

RECURSIVE BTrim(_)
BTrim(a) ==
  IF a = <<>> THEN a
  ELSE IF a[Len(a)] = 0 THEN BTrim(SubSeq(a, 1, Len(a) - 1)) ELSE a

RECURSIVE BFromInt(_)
BFromInt(n) == IF n = 0 THEN <<>> ELSE <<n % LimbBase>> \o BFromInt(n \div LimbBase)

RECURSIVE BAddC(_, _, _, _)
BAddC(a, b, i, c) ==
  IF i > Len(a) /\ i > Len(b)
  THEN (IF c = 0 THEN <<>> ELSE <<c>>)
  ELSE LET s == Limb(a, i) + Limb(b, i) + c
       IN  <<s % LimbBase>> \o BAddC(a, b, i + 1, s \div LimbBase)
BAdd(a, b) == BAddC(a, b, 1, 0)

\* a - b for a >= b
RECURSIVE BSubC(_, _, _, _)
BSubC(a, b, i, c) ==
  IF i > Len(a) THEN <<>>
  ELSE LET d == a[i] - Limb(b, i) - c
       IN  IF d < 0 THEN <<d + LimbBase>> \o BSubC(a, b, i + 1, 1)
                    ELSE <<d>> \o BSubC(a, b, i + 1, 0)
BSub(a, b) == BTrim(BSubC(a, b, 1, 0))

\* -1, 0, 1 as a < b, a = b, a > b
RECURSIVE BCmpAt(_, _, _)
BCmpAt(a, b, i) ==
  IF i = 0 THEN 0
  ELSE IF a[i] < b[i] THEN -1
  ELSE IF a[i] > b[i] THEN 1
  ELSE BCmpAt(a, b, i - 1)
BCmp(a, b) ==
  IF Len(a) < Len(b) THEN -1
  ELSE IF Len(a) > Len(b) THEN 1
  ELSE BCmpAt(a, b, Len(a))

\* a * k + c for 0 <= k, c < LimbBase
RECURSIVE BMulSmallC(_, _, _, _)
BMulSmallC(a, k, i, c) ==
  IF i > Len(a) THEN (IF c = 0 THEN <<>> ELSE <<c>>)
  ELSE LET p == a[i] * k + c
       IN  <<p % LimbBase>> \o BMulSmallC(a, k, i + 1, p \div LimbBase)
BMulSmall(a, k) == IF k = 0 THEN <<>> ELSE BMulSmallC(a, k, 1, 0)

ZeroLimbs(n) == [i \in 1..n |-> 0]
BShiftLimbs(a, n) == IF a = <<>> THEN a ELSE ZeroLimbs(n) \o a

RECURSIVE BMulAt(_, _, _)
BMulAt(a, b, i) ==
  IF i > Len(b) THEN <<>>
  ELSE BAdd(BShiftLimbs(BMulSmall(a, b[i]), i - 1), BMulAt(a, b, i + 1))
BMul(a, b) == IF Len(a) >= Len(b) THEN BMulAt(a, b, 1) ELSE BMulAt(b, a, 1)

\* <<quotient limbs (little-endian, untrimmed), remainder>> of a by 0 < k < LimbBase
RECURSIVE BDivSmallAt(_, _, _, _)
BDivSmallAt(a, k, i, r) ==
  IF i = 0 THEN <<<<>>, r>>
  ELSE LET cur  == r * LimbBase + a[i]
           rest == BDivSmallAt(a, k, i - 1, cur % k)
       IN  <<Append(rest[1], cur \div k), rest[2]>>
BDivSmall(a, k) ==
  LET qr == BDivSmallAt(a, k, Len(a), 0) IN <<BTrim(qr[1]), qr[2]>>

BShl(a, n) == BShiftLimbs(BMulSmall(a, 2^(n % LimbBits)), n \div LimbBits)
BShr(a, n) ==
  LET drop == n \div LimbBits
  IN  IF drop >= Len(a) THEN <<>>
      ELSE BDivSmall(SubSeq(a, drop + 1, Len(a)), 2^(n % LimbBits))[1]

RECURSIVE IntBitLen(_)
IntBitLen(n) == IF n = 0 THEN 0 ELSE 1 + IntBitLen(n \div 2)
BitLen(a) == IF a = <<>> THEN 0 ELSE LimbBits * (Len(a) - 1) + IntBitLen(a[Len(a)])

RECURSIVE IntTrailingZeros(_)
IntTrailingZeros(n) == IF n % 2 = 1 THEN 0 ELSE 1 + IntTrailingZeros(n \div 2)
BIsOdd(a) == a # <<>> /\ a[1] % 2 = 1

\* ------------------------------------------------------------------------
\* Numbers (binary64): [s |-> 1 or -1, m |-> limbs, e |-> exponent], value
\* s * m * 2^e, kept canonical: m odd, or m = <<>>, e = 0, s = 1 for zero.
\* The X operators are exact (no rounding); the F operators are the
\* language's: the exact result rounded to 53 significant bits.
\* ------------------------------------------------------------------------
Zero == [s |-> 1, m |-> <<>>, e |-> 0]

RECURSIVE StripLimbs(_, _)
StripLimbs(m, e) ==
  IF m[1] = 0 THEN StripLimbs(SubSeq(m, 2, Len(m)), e + LimbBits) ELSE <<m, e>>

Canon(s, m, e) ==
  IF m = <<>> THEN Zero
  ELSE LET st == StripLimbs(m, e)
           tz == IntTrailingZeros(st[1][1])
       IN  [s |-> s, m |-> BShr(st[1], tz), e |-> st[2] + tz]

\* s * m * 2^e rounded to nearest, ties to even, at 53 bits
Round53(s, m, e) ==
  LET len == BitLen(m)
  IN  IF len <= 53 THEN Canon(s, m, e)
      ELSE LET k    == len - 53
               q    == BShr(m, k)
               r    == BSub(m, BShl(q, k))
               c    == BCmp(r, BShl(<<1>>, k - 1))
               up   == c > 0 \/ (c = 0 /\ BIsOdd(q))
           IN  Canon(s, IF up THEN BAdd(q, <<1>>) ELSE q, e + k)

FromInt(n) == IF n >= 0 THEN Canon(1, BFromInt(n), 0) ELSE Canon(-1, BFromInt(-n), 0)

XNeg(a) == IF a.m = <<>> THEN a ELSE [a EXCEPT !.s = -a.s]
XAbs(a) == [a EXCEPT !.s = 1]
XMul(a, b) == Canon(a.s * b.s, BMul(a.m, b.m), a.e + b.e)
XAdd(a, b) ==
  LET e  == Min2(a.e, b.e)
      ma == BShl(a.m, a.e - e)
      mb == BShl(b.m, b.e - e)
  IN  IF a.s = b.s THEN Canon(a.s, BAdd(ma, mb), e)
      ELSE IF BCmp(ma, mb) >= 0 THEN Canon(a.s, BSub(ma, mb), e)
      ELSE Canon(b.s, BSub(mb, ma), e)
XSub(a, b) == XAdd(a, XNeg(b))
\* the sign of a - b: -1, 0, 1
XCmp(a, b) == LET d == XSub(a, b) IN IF d.m = <<>> THEN 0 ELSE d.s
XLt(a, b) == XCmp(a, b) < 0
XLe(a, b) == XCmp(a, b) <= 0
XHalf(a) == IF a.m = <<>> THEN a ELSE [a EXCEPT !.e = a.e - 1]

FRound(a) == Round53(a.s, a.m, a.e)
FMul(a, b) == FRound(XMul(a, b))
FAdd(a, b) == FRound(XAdd(a, b))
FSub(a, b) == FRound(XSub(a, b))
FAbs(a) == XAbs(a)
FMin(a, b) == IF XLe(a, b) THEN a ELSE b
\* a / b for a divisor whose odd part is below LimbBase (every divisor of
\* the page is an image side, 100 or 2): the quotient to 56 bits or more,
\* a sticky bit for the remainder appended, then rounded.
FDiv(a, b) ==
  IF a.m = <<>> THEN Zero
  ELSE LET k  == Max2(0, 56 + BitLen(b.m) - BitLen(a.m))
           qr == BDivSmall(BShl(a.m, k), b.m[1])
           q  == BAdd(BShl(qr[1], 1), IF qr[2] = 0 THEN <<>> ELSE <<1>>)
       IN  Round53(a.s * b.s, q, a.e - b.e - k - 1)

\* ------------------------------------------------------------------------
\* The page's pure computations
\* ------------------------------------------------------------------------
ALLOWED_DIMENSIONS ==
  << <<1024, 1024>>, <<1152, 896>>, <<1216, 832>>, <<1344, 768>>,
     <<1536, 640>>, <<640, 1536>>, <<768, 1344>>, <<832, 1216>>, <<896, 1152>> >>

\* let minDiff = Infinity; diff < minDiff
Infinity == [s |-> 1, inf |-> TRUE]
\* a comparison that keeps the farther entry (a faulty variant of the test below)
GreaterThan(diff, minDiff) ==
  IF "inf" \in DOMAIN minDiff THEN TRUE ELSE XLt(minDiff, diff)
LessThan(diff, minDiff) ==
  IF "inf" \in DOMAIN minDiff THEN TRUE ELSE XLt(diff, minDiff)

\* a faulty variant of the distance below: the difference without Math.abs
AspectDiffNoAbs(originalAspectRatio, dim) ==
  FSub(originalAspectRatio, FDiv(FromInt(dim[1]), FromInt(dim[2])))
\* Math.abs(originalAspectRatio - (dim[0] / dim[1]))
AspectDiff(originalAspectRatio, dim) ==
  FAbs(FSub(originalAspectRatio, FDiv(FromInt(dim[1]), FromInt(dim[2]))))

\* ALLOWED_DIMENSIONS.forEach(dim => { if (diff < minDiff) { ... } }), from
\* index i on, with the loop's bestMatch and minDiff
RECURSIVE forEachDim(_, _, _, _)
forEachDim(originalAspectRatio, i, bestMatch, minDiff) ==
  IF i > Len(ALLOWED_DIMENSIONS) THEN bestMatch
  ELSE LET dim  == ALLOWED_DIMENSIONS[i]
           diff == AspectDiff(originalAspectRatio, dim)
       IN  IF LessThan(diff, minDiff)
           THEN forEachDim(originalAspectRatio, i + 1, dim, diff)
           ELSE forEachDim(originalAspectRatio, i + 1, bestMatch, minDiff)

findClosestAllowedSize(width, height) ==
  forEachDim(FDiv(FromInt(width), FromInt(height)), 1, ALLOWED_DIMENSIONS[1], Infinity)

\* handleGenerate's letterbox of a width x height image into the target
Letterbox(width, height, targetWidth, targetHeight) ==
  LET ratio     == FMin(FDiv(FromInt(targetWidth), FromInt(width)),
                        FDiv(FromInt(targetHeight), FromInt(height)))
      newWidth  == FMul(FromInt(width), ratio)
      newHeight == FMul(FromInt(height), ratio)
  IN  [ratio     |-> ratio,
       newWidth  |-> newWidth,
       newHeight |-> newHeight,
       offsetX   |-> FDiv(FSub(FromInt(targetWidth), newWidth), FromInt(2)),
       offsetY   |-> FDiv(FSub(FromInt(targetHeight), newHeight), FromInt(2))]

\* faulty variants of the preview's rectangle: the anchor taken as the
\* rectangle's top-left corner; the height taken from the canvas's height
PreviewRectTopLeft(canvasWidth, canvasHeight, logoToDraw, logoSize, logoPosition) ==
  LET logoWidth  == FMul(FromInt(canvasWidth), FDiv(FromInt(logoSize), FromInt(100)))
      logoHeight == FMul(FromInt(logoToDraw.height),
                         FDiv(logoWidth, FromInt(logoToDraw.width)))
  IN  [x |-> FMul(FromInt(canvasWidth), FDiv(FromInt(logoPosition.x), FromInt(100))),
       y |-> FMul(FromInt(canvasHeight), FDiv(FromInt(logoPosition.y), FromInt(100))),
       logoWidth |-> logoWidth,
       logoHeight |-> logoHeight]
PreviewRectCanvasHeight(canvasWidth, canvasHeight, logoToDraw, logoSize, logoPosition) ==
  LET logoWidth  == FMul(FromInt(canvasWidth), FDiv(FromInt(logoSize), FromInt(100)))
      logoHeight == FMul(FromInt(canvasHeight), FDiv(FromInt(logoSize), FromInt(100)))
  IN  [x |-> FSub(FMul(FromInt(canvasWidth), FDiv(FromInt(logoPosition.x), FromInt(100))),
                  FDiv(logoWidth, FromInt(2))),
       y |-> FSub(FMul(FromInt(canvasHeight), FDiv(FromInt(logoPosition.y), FromInt(100))),
                  FDiv(logoHeight, FromInt(2))),
       logoWidth |-> logoWidth,
       logoHeight |-> logoHeight]

\* the overlay rectangle of the preview effect, drawn on a canvas of the
\* product image's size: ctx.drawImage(logoToDraw, x, y, logoWidth, logoHeight)
PreviewRect(canvasWidth, canvasHeight, logoToDraw, logoSize, logoPosition) ==
  LET logoWidth  == FMul(FromInt(canvasWidth), FDiv(FromInt(logoSize), FromInt(100)))
      logoHeight == FMul(FromInt(logoToDraw.height),
                         FDiv(logoWidth, FromInt(logoToDraw.width)))
  IN  [x |-> FSub(FMul(FromInt(canvasWidth), FDiv(FromInt(logoPosition.x), FromInt(100))),
                  FDiv(logoWidth, FromInt(2))),
       y |-> FSub(FMul(FromInt(canvasHeight), FDiv(FromInt(logoPosition.y), FromInt(100))),
                  FDiv(logoHeight, FromInt(2))),
       logoWidth |-> logoWidth,
       logoHeight |-> logoHeight]

\* a faulty variant of the fitted canvas's rectangle: the letterbox's offsets left out
SubmitRectNoOffset(box, finalLogoToComposite, logoSize, logoPosition) ==
  LET logoWidth  == FMul(box.newWidth, FDiv(FromInt(logoSize), FromInt(100)))
      logoHeight == FMul(FromInt(finalLogoToComposite.height),
                         FDiv(logoWidth, FromInt(finalLogoToComposite.width)))
  IN  [x |-> FSub(FMul(box.newWidth, FDiv(FromInt(logoPosition.x), FromInt(100))),
                  FDiv(logoWidth, FromInt(2))),
       y |-> FSub(FMul(box.newHeight, FDiv(FromInt(logoPosition.y), FromInt(100))),
                  FDiv(logoHeight, FromInt(2))),
       logoWidth |-> logoWidth,
       logoHeight |-> logoHeight]

\* the overlay rectangle handleGenerate draws on the fitted canvas:
\* ctx.drawImage(finalLogoToComposite, logoX, logoY, logoWidth, logoHeight)
SubmitRect(box, finalLogoToComposite, logoSize, logoPosition) ==
  LET logoWidth  == FMul(box.newWidth, FDiv(FromInt(logoSize), FromInt(100)))
      logoHeight == FMul(FromInt(finalLogoToComposite.height),
                         FDiv(logoWidth, FromInt(finalLogoToComposite.width)))
  IN  [x |-> FSub(FAdd(box.offsetX,
                       FMul(box.newWidth, FDiv(FromInt(logoPosition.x), FromInt(100)))),
                  FDiv(logoWidth, FromInt(2))),
       y |-> FSub(FAdd(box.offsetY,
                       FMul(box.newHeight, FDiv(FromInt(logoPosition.y), FromInt(100)))),
                  FDiv(logoHeight, FromInt(2))),
       logoWidth |-> logoWidth,
       logoHeight |-> logoHeight]

\* ------------------------------------------------------------------------
\* Bounds of the inputs
\* ------------------------------------------------------------------------
MaxSide == 20
SampleSides == {630, 640, 768, 832, 896, 1000, 1024, 1152, 1200, 1216, 1344, 1536, 2000}
Sides == (1..MaxSide) \cup SampleSides

\* the compositor's inputs: a size sweep and an anchor sweep on the 1000x1000
\* canvas with the 200x100 overlay, and the product of a few images, overlays,
\* sizes and anchors
MaxPercent == 100
SizeRange == 1..MaxPercent
AnchorRange == 0..MaxPercent
SampleImages == {<<1000, 1000>>, <<2000, 1000>>, <<1200, 630>>, <<8, 9>>, <<3, 7>>}
SampleLogos == {<<200, 100>>, <<3, 7>>, <<512, 512>>}
SampleSizes == {1, 15, 33, 100}
SampleAnchors == {<<0, 100>>, <<75, 80>>, <<50, 50>>, <<33, 1>>}
DrawInput(img, logo, size, anchor) ==
  [called |-> FALSE,
   image |-> [width |-> img[1], height |-> img[2]],
   logo |-> [width |-> logo[1], height |-> logo[2]],
   logoSize |-> size,
   logoPosition |-> [x |-> anchor[1], y |-> anchor[2]]]
DrawInputs ==
       {DrawInput(<<1000, 1000>>, <<200, 100>>, size, <<75, 80>>) : size \in SizeRange}
  \cup {DrawInput(<<1200, 630>>, <<200, 100>>, 15, <<a, MaxPercent - a>>) : a \in AnchorRange}
  \cup {DrawInput(img, logo, size, anchor) :
          img \in SampleImages, logo \in SampleLogos,
          size \in SampleSizes, anchor \in SampleAnchors}

\* ------------------------------------------------------------------------
\* The page: LogoPlacerPage's state, the user's events and handleGenerate
\* ------------------------------------------------------------------------
MaxEdits == 3
MaxRequests == 2
Requests == 1..MaxRequests

NoImage == [id |-> "none", erased |-> FALSE, width |-> 0, height |-> 0]
ProductFiles == {[id |-> "product", erased |-> FALSE, width |-> 1200, height |-> 630]}
LogoFiles == {[id |-> "logoA", erased |-> FALSE, width |-> 200, height |-> 100],
              [id |-> "logoB", erased |-> FALSE, width |-> 512, height |-> 512]}
SizeValues == {15, 40}
AnchorXValues == {75, 25}
AnchorYValues == {80, 20}
\* useState's initial prompt, per revision
DefaultPrompt(r) ==
  IF r = "bg"
  THEN "Integrate the logo naturally into the background. Match the lighting, texture, and perspective of the scene. Add a subtle, realistic shadow. The main product must remain untouched. Do not change the shape or design of the logo."
  ELSE "Blend the added logo seamlessly into the background. Match the lighting, texture, and perspective of the scene. Add a subtle, realistic shadow if appropriate. The main product should remain untouched and in focus."
PromptValues == {"Blend the logo into the wall.", ""}

\* error texts; an API error carries the response's statusText and text
Err(msg) == [msg |-> msg, statusText |-> "", text |-> ""]
NoError == Err("")
MissingInputError == Err("Please upload both a product image and a logo.")
MissingKeyError == Err("Stability AI API key not configured.")
EraseFailedError == Err("Failed to remove logo background.")
NoContextError == Err("Failed to create canvas for resizing.")
NoBlobError(r) ==
  IF r = "bg" THEN Err("Could not create blob from canvas.")
  ELSE Err("Could not process the resized image.")
NotSuccessError(r) ==
  IF r = "bg" THEN Err("Image integration failed.")
  ELSE Err("Image generation failed or did not return a valid image.")
ApiError(response) ==
  [msg |-> "API Error: ${response.statusText} - ${errorText}",
   statusText |-> response.statusText, text |-> response.text]
\* err.message of a rejected fetch and of a response.json() that cannot parse
FetchRejectedError == Err("Failed to fetch")
JsonSyntaxError == Err("Unexpected token < in JSON at position 0")

\* what a fetch can come back with
Rejected == [kind |-> "rejected", ok |-> FALSE, statusText |-> "", text |-> "",
             finishReason |-> ""]
BadStatus == [kind |-> "response", ok |-> FALSE, statusText |-> "Bad Request",
              text |-> "{\"message\":\"invalid_prompt\"}", finishReason |-> ""]
NotJson == [kind |-> "response", ok |-> TRUE, statusText |-> "OK",
            text |-> "<html>", finishReason |-> ""]
Filtered == [kind |-> "response", ok |-> TRUE, statusText |-> "OK",
             text |-> "{\"artifacts\":[...]}", finishReason |-> "CONTENT_FILTERED"]
Succeeded == [kind |-> "response", ok |-> TRUE, statusText |-> "OK",
              text |-> "{\"artifacts\":[...]}", finishReason |-> "SUCCESS"]
EraseOutcomes == {Rejected, BadStatus, NotJson, Succeeded}
GenerateOutcomes == {Rejected, BadStatus, NotJson, Filtered, Succeeded}
GeneratedDataUrl == "data:image/png;base64,${imageArtifact.base64}"

\* a faulty variant of the erased logo: the logo as uploaded
NotErased(logo) == logo
\* the image the erase endpoint returns for a logo, once decoded
Erased(logo) == [logo EXCEPT !.erased = TRUE]

NoBlob == [image |-> NoImage, logo |-> NoImage, logoSize |-> 0,
           logoPosition |-> [x |-> 0, y |-> 0]]
\* the fitted canvas's drawing calls: the image drawn by Letterbox into
\* findClosestAllowedSize's canvas, the logo drawn at SubmitRect
Composite(image, logo, size, position) ==
  [image |-> image, logo |-> logo, logoSize |-> size, logoPosition |-> position]

IdleRequest ==
  [pc |-> "idle", outcome |-> "", productImage |-> NoImage, originalLogo |-> NoImage,
   logoSize |-> 0, logoPosition |-> [x |-> 0, y |-> 0], prompt |-> "",
   removeLogoBg |-> FALSE, blob |-> NoBlob, eraseResult |-> ""]

VARIABLES
  fit, draw,          \* the calls of the pure computations (SpecFit, SpecDraw)
  rev,                \* "bg": src/src/app/page.tsx, "plain": src/unnamed/part_000
  apiKey,             \* whether NEXT_PUBLIC_STABILITY_API_KEY is configured
  productImage, originalLogo, processedLogo, prompt, generatedImage,
  isLoading, loadingStatus, error, logoSize, logoPosition, removeLogoBg,
  canvas,             \* the preview <canvas> element canvasRef points to
  pending,            \* the files being read and decoded, per input
  reqs,               \* the calls of handleGenerate
  net,                \* the fetches outstanding
  sent,               \* the fetches issued, in order
  edits               \* the user's edits so far

pageVars == <<rev, apiKey, productImage, originalLogo, processedLogo, prompt,
              generatedImage, isLoading, loadingStatus, error, logoSize,
              logoPosition, removeLogoBg, canvas, pending, reqs, net, sent, edits>>
vars == <<fit, draw, pageVars>>

Idle == [called |-> TRUE, idle |-> TRUE]

Unmounted == [state |-> "unmounted", content |-> NoBlob]
Blank == [state |-> "blank", content |-> NoBlob]

\* the page as mounted: the useState initial values, an empty canvas
InitPage(revisions, keys) ==
  /\ rev \in revisions
  /\ apiKey \in keys
  /\ productImage = NoImage
  /\ originalLogo = NoImage
  /\ processedLogo = NoImage
  /\ prompt = DefaultPrompt(rev)
  /\ generatedImage = ""
  /\ isLoading = FALSE
  /\ loadingStatus = ""
  /\ error = NoError
  /\ logoSize = 15
  /\ logoPosition = [x |-> 75, y |-> 80]
  /\ removeLogoBg = (rev = "bg")
  /\ canvas = Blank
  /\ pending = [slot \in {"product", "logo"} |-> NoImage]
  /\ reqs = [r \in Requests |-> IdleRequest]
  /\ net = {}
  /\ sent = <<>>
  /\ edits = 0

\* the inputs of one call, drawn from the bounded sets
InitFit ==
  /\ fit \in {[called |-> FALSE, width |-> w, height |-> h] : w \in Sides, h \in Sides}
  /\ draw = Idle
  /\ InitPage({"bg"}, {TRUE})

InitDraw ==
  /\ fit = Idle
  /\ draw \in DrawInputs
  /\ InitPage({"bg"}, {TRUE})

\* findClosestAllowedSize(width, height) and the letterbox into its result,
\* as handleGenerate runs them on productImage.width, productImage.height
CallFit ==
  /\ ~fit.called
  /\ LET target == findClosestAllowedSize(fit.width, fit.height)
     IN  fit' = [called |-> TRUE, width |-> fit.width, height |-> fit.height,
                 target |-> target,
                 box |-> Letterbox(fit.width, fit.height, target[1], target[2])]
  /\ UNCHANGED <<draw, pageVars>>

\* the preview effect's overlay on the image-sized canvas, and the overlay
\* handleGenerate draws on the fitted canvas, for the same image, logo,
\* logoSize and logoPosition
CallDraw ==
  /\ ~draw.called
  /\ LET target == findClosestAllowedSize(draw.image.width, draw.image.height)
         box    == Letterbox(draw.image.width, draw.image.height, target[1], target[2])
     IN  draw' = [draw EXCEPT !.called = TRUE] @@
                 [preview |-> PreviewRect(draw.image.width, draw.image.height,
                                          draw.logo, draw.logoSize, draw.logoPosition),
                  target  |-> target,
                  box     |-> box,
                  submit  |-> SubmitRect(box, draw.logo, draw.logoSize, draw.logoPosition)]
  /\ UNCHANGED <<fit, pageVars>>

\* --- rendering: the canvas is in the tree while !isLoading && !generatedImage;
\* the preview effect runs after a render that changed one of its dependencies
\* and draws if canvasRef.current and productImage are set
Deps == <<productImage, originalLogo, processedLogo, logoSize, logoPosition>>
LogoToDraw(processed, original) == IF processed # NoImage THEN processed ELSE original
PreviewEffectRuns(before, after) == before # after
Render ==
  canvas' =
    IF isLoading' \/ generatedImage' # "" THEN Unmounted
    ELSE IF PreviewEffectRuns(Deps, Deps') /\ productImage' # NoImage
         THEN [state |-> "drawn",
               content |-> Composite(productImage', LogoToDraw(processedLogo', originalLogo'),
                                     logoSize', logoPosition')]
    ELSE IF canvas.state = "unmounted" THEN Blank
    ELSE canvas

\* --- the user's events
\* handleFileChange: a file chosen; the reader and the decoder run later
SelectFile(slot, file) ==
  /\ edits < MaxEdits
  /\ pending[slot] = NoImage
  /\ pending' = [pending EXCEPT ![slot] = file]
  /\ error' = NoError
  /\ edits' = edits + 1
  /\ UNCHANGED <<fit, draw, rev, apiKey, productImage, originalLogo, processedLogo, prompt,
                 generatedImage, isLoading, loadingStatus, logoSize, logoPosition,
                 removeLogoBg, reqs, net, sent>>
  /\ Render

\* img.onload: imageSetter(img), and processedSetter(img) for the logo of "bg"
FileLoaded(slot) ==
  /\ pending[slot] # NoImage
  /\ pending' = [pending EXCEPT ![slot] = NoImage]
  /\ IF slot = "product"
     THEN /\ productImage' = pending[slot]
          /\ UNCHANGED <<originalLogo, processedLogo>>
     ELSE /\ originalLogo' = pending[slot]
          /\ processedLogo' = IF rev = "bg" THEN pending[slot] ELSE processedLogo
          /\ UNCHANGED productImage
  /\ UNCHANGED <<fit, draw, rev, apiKey, prompt, generatedImage, isLoading, loadingStatus, error,
                 logoSize, logoPosition, removeLogoBg, reqs, net, sent, edits>>
  /\ Render

\* the file does not decode: no onerror handler, nothing is set
FileNotDecoded(slot) ==
  /\ pending[slot] # NoImage
  /\ pending' = [pending EXCEPT ![slot] = NoImage]
  /\ UNCHANGED <<fit, draw, rev, apiKey, productImage, originalLogo, processedLogo, prompt,
                 generatedImage, isLoading, loadingStatus, error, logoSize, logoPosition,
                 removeLogoBg, reqs, net, sent, edits>>
  /\ Render

\* the sliders are rendered once both images are set
SlidersShown == productImage # NoImage /\ originalLogo # NoImage

SetLogoSize(value) ==
  /\ SlidersShown /\ edits < MaxEdits /\ value # logoSize
  /\ logoSize' = value
  /\ edits' = edits + 1
  /\ UNCHANGED <<fit, draw, rev, apiKey, productImage, originalLogo, processedLogo, prompt,
                 generatedImage, isLoading, loadingStatus, error, logoPosition,
                 removeLogoBg, pending, reqs, net, sent>>
  /\ Render

SetLogoPositionX(value) ==
  /\ SlidersShown /\ edits < MaxEdits /\ value # logoPosition.x
  /\ logoPosition' = [logoPosition EXCEPT !.x = value]
  /\ edits' = edits + 1
  /\ UNCHANGED <<fit, draw, rev, apiKey, productImage, originalLogo, processedLogo, prompt,
                 generatedImage, isLoading, loadingStatus, error, logoSize,
                 removeLogoBg, pending, reqs, net, sent>>
  /\ Render

SetLogoPositionY(value) ==
  /\ SlidersShown /\ edits < MaxEdits /\ value # logoPosition.y
  /\ logoPosition' = [logoPosition EXCEPT !.y = value]
  /\ edits' = edits + 1
  /\ UNCHANGED <<fit, draw, rev, apiKey, productImage, originalLogo, processedLogo, prompt,
                 generatedImage, isLoading, loadingStatus, error, logoSize,
                 removeLogoBg, pending, reqs, net, sent>>
  /\ Render

SetPrompt(value) ==
  /\ edits < MaxEdits /\ value # prompt
  /\ prompt' = value
  /\ edits' = edits + 1
  /\ UNCHANGED <<fit, draw, rev, apiKey, productImage, originalLogo, processedLogo,
                 generatedImage, isLoading, loadingStatus, error, logoSize, logoPosition,
                 removeLogoBg, pending, reqs, net, sent>>
  /\ Render

\* the checkbox of "bg", rendered once a logo is set
ToggleRemoveLogoBg ==
  /\ rev = "bg" /\ originalLogo # NoImage /\ edits < MaxEdits
  /\ removeLogoBg' = ~removeLogoBg
  /\ edits' = edits + 1
  /\ UNCHANGED <<fit, draw, rev, apiKey, productImage, originalLogo, processedLogo, prompt,
                 generatedImage, isLoading, loadingStatus, error, logoSize, logoPosition,
                 pending, reqs, net, sent>>
  /\ Render

\* --- handleGenerate
NextRequest(r) == reqs[r].pc = "idle" /\ \A q \in Requests : q < r => reqs[q].pc # "idle"
Triggered(r) ==
  [IdleRequest EXCEPT !.productImage = productImage, !.originalLogo = originalLogo,
                      !.logoSize = logoSize, !.logoPosition = logoPosition,
                      !.prompt = prompt, !.removeLogoBg = removeLogoBg]
Ended(r, outcome) ==
  [IdleRequest EXCEPT !.pc = "done", !.outcome = outcome,
                      !.removeLogoBg = reqs[r].removeLogoBg,
                      !.eraseResult = reqs[r].eraseResult]
Issue(r, call, blob, text) ==
  /\ net' = net \cup {<<r, call>>}
  /\ sent' = Append(sent, [req |-> r, call |-> call, blob |-> blob, prompt |-> text])

\* catch (err) { setError(...) } finally { setIsLoading(false); setLoadingStatus('') }
\* (in "plain", the early returns' setError and setIsLoading(false))
Catch(r, err, outcome) ==
  /\ error' = err
  /\ isLoading' = FALSE
  /\ loadingStatus' = ""
  /\ reqs' = [reqs EXCEPT ![r] = Ended(r, outcome)]

\* a faulty variant of step 2: the composite drawn from the page's state at
\* the time the step runs instead of the state the handler was called with
CompositeStepLatest(r, req, finalLogoToComposite, hasContext) ==
  IF hasContext
  THEN /\ isLoading' = TRUE
       /\ error' = NoError
       /\ loadingStatus' = IF rev = "bg" THEN "Integrating logo..." ELSE ""
       /\ reqs' = [reqs EXCEPT ![r] =
                     [req EXCEPT !.pc = "toBlob",
                                 !.blob = Composite(productImage, finalLogoToComposite,
                                                    logoSize, logoPosition)]]
  ELSE Catch(r, NoContextError, "error")

\* step 2 up to the await of toBlob, for the request record req: the fitted
\* canvas and its 2d context, the letterboxed image, the logo on top
CompositeStep(r, req, finalLogoToComposite, hasContext) ==
  IF hasContext
  THEN /\ isLoading' = TRUE
       /\ error' = NoError
       /\ loadingStatus' = IF rev = "bg" THEN "Integrating logo..." ELSE ""
       /\ reqs' = [reqs EXCEPT ![r] =
                     [req EXCEPT !.pc = "toBlob",
                                 !.blob = Composite(req.productImage, finalLogoToComposite,
                                                    req.logoSize, req.logoPosition)]]
  ELSE Catch(r, NoContextError, "error")

\* a faulty variant of the handler's first test: it never returns early
NeverMissing == FALSE
InputsMissing == productImage = NoImage \/ originalLogo = NoImage

\* handleGenerate up to its first await
HandleGenerate(r) ==
  /\ NextRequest(r)
  /\ IF InputsMissing
     THEN /\ error' = MissingInputError
          /\ reqs' = [reqs EXCEPT ![r] = Ended(r, "missingInput")]
          /\ UNCHANGED <<generatedImage, isLoading, loadingStatus>>
     ELSE /\ generatedImage' = ""
          /\ IF rev = "bg" /\ ~apiKey
             THEN Catch(r, MissingKeyError, "missingKey")
             ELSE IF rev = "bg" /\ removeLogoBg
             THEN /\ isLoading' = TRUE
                  /\ error' = NoError
                  /\ loadingStatus' = "Removing logo background..."
                  /\ reqs' = [reqs EXCEPT ![r] = [Triggered(r) EXCEPT !.pc = "fetchLogo"]]
             ELSE \E hasContext \in BOOLEAN :
                     CompositeStep(r, Triggered(r), originalLogo, hasContext)
  /\ UNCHANGED <<fit, draw, rev, apiKey, productImage, originalLogo, processedLogo, prompt,
                 logoSize, logoPosition, removeLogoBg, pending, net, sent, edits>>
  /\ Render

\* a faulty variant of the button: disabled only while an input is missing
ButtonDisabledInputsOnly == productImage = NoImage \/ originalLogo = NoImage
\* the button: disabled={isLoading || !productImage || !originalLogo}
ButtonDisabled == isLoading \/ productImage = NoImage \/ originalLogo = NoImage
ClickGenerate == \E r \in Requests : ~ButtonDisabled /\ HandleGenerate(r)
\* the handler called with the button's test of the inputs left out
CallGenerate == \E r \in Requests : ~isLoading /\ HandleGenerate(r)

\* "bg": await (await fetch(originalLogo.src)).blob() of the logo's data URL,
\* then the erase request is issued
LogoBlobRead(r, ok) ==
  /\ reqs[r].pc = "fetchLogo"
  /\ IF ok
     THEN /\ Issue(r, "erase", [NoBlob EXCEPT !.logo = reqs[r].originalLogo], "")
          /\ reqs' = [reqs EXCEPT ![r].pc = "erase"]
          /\ UNCHANGED <<error, isLoading, loadingStatus>>
     ELSE /\ Catch(r, FetchRejectedError, "error")
          /\ UNCHANGED <<net, sent>>
  /\ UNCHANGED <<fit, draw, rev, apiKey, productImage, originalLogo, processedLogo, prompt,
                 generatedImage, logoSize, logoPosition, removeLogoBg, pending, edits>>
  /\ Render

\* "bg": the erase fetch settles; !eraseResponse.ok throws, eraseResponse.json()
\* may throw; else newLogo.src is set and the handler awaits its onload
EraseSettled(r, outcome) ==
  /\ reqs[r].pc = "erase"
  /\ net' = net \ {<<r, "erase">>}
  /\ IF outcome = Succeeded
     THEN /\ reqs' = [reqs EXCEPT ![r].pc = "decode", ![r].eraseResult = "ok"]
          /\ UNCHANGED <<error, isLoading, loadingStatus>>
     ELSE /\ error' = IF outcome = Rejected THEN FetchRejectedError
                      ELSE IF outcome = BadStatus THEN EraseFailedError
                      ELSE JsonSyntaxError
          /\ isLoading' = FALSE
          /\ loadingStatus' = ""
          /\ reqs' = [reqs EXCEPT ![r] = [Ended(r, "error") EXCEPT !.eraseResult = "failed"]]
  /\ UNCHANGED <<fit, draw, rev, apiKey, productImage, originalLogo, processedLogo, prompt,
                 generatedImage, logoSize, logoPosition, removeLogoBg, pending, sent, edits>>
  /\ Render

\* "bg": newLogo.onload resolves the awaited promise: setProcessedLogo(newLogo)
\* and step 2 with finalLogoToComposite = newLogo
LogoDecoded(r) ==
  /\ reqs[r].pc = "decode"
  /\ processedLogo' = Erased(reqs[r].originalLogo)
  /\ \E hasContext \in BOOLEAN :
        CompositeStep(r, reqs[r], Erased(reqs[r].originalLogo), hasContext)
  /\ UNCHANGED <<fit, draw, rev, apiKey, productImage, originalLogo, prompt, generatedImage,
                 logoSize, logoPosition, removeLogoBg, pending, net, sent, edits>>
  /\ Render

\* "bg": the erased image does not decode; newLogo has no onerror, the promise
\* never settles and the handler is never resumed
LogoNotDecoded(r) ==
  /\ reqs[r].pc = "decode"
  /\ reqs' = [reqs EXCEPT ![r].pc = "suspended"]
  /\ UNCHANGED <<fit, draw, rev, apiKey, productImage, originalLogo, processedLogo, prompt,
                 generatedImage, isLoading, loadingStatus, error, logoSize, logoPosition,
                 removeLogoBg, pending, net, sent, edits>>
  /\ Render

\* toBlob's callback: a null blob ends the request; "plain" reads the API
\* key here; else step 3 issues the image-to-image request
BlobReady(r, hasBlob) ==
  /\ reqs[r].pc = "toBlob"
  /\ IF ~hasBlob
     THEN /\ Catch(r, NoBlobError(rev), "error")
          /\ UNCHANGED <<net, sent>>
     ELSE IF ~apiKey
     THEN /\ Catch(r, MissingKeyError, "missingKey")
          /\ UNCHANGED <<net, sent>>
     ELSE /\ Issue(r, "image-to-image", reqs[r].blob, reqs[r].prompt)
          /\ reqs' = [reqs EXCEPT ![r].pc = "generate"]
          /\ UNCHANGED <<error, isLoading, loadingStatus>>
  /\ UNCHANGED <<fit, draw, rev, apiKey, productImage, originalLogo, processedLogo, prompt,
                 generatedImage, logoSize, logoPosition, removeLogoBg, pending, edits>>
  /\ Render

\* the image-to-image fetch settles
GenerateSettled(r, outcome) ==
  /\ reqs[r].pc = "generate"
  /\ net' = net \ {<<r, "image-to-image">>}
  /\ isLoading' = FALSE
  /\ loadingStatus' = ""
  /\ IF outcome = Succeeded
     THEN /\ generatedImage' = GeneratedDataUrl
          /\ reqs' = [reqs EXCEPT ![r] = Ended(r, "success")]
          /\ UNCHANGED error
     ELSE /\ error' = IF outcome = Rejected THEN FetchRejectedError
                      ELSE IF outcome = BadStatus THEN ApiError(outcome)
                      ELSE IF outcome = NotJson THEN JsonSyntaxError
                      ELSE NotSuccessError(rev)
          /\ reqs' = [reqs EXCEPT ![r] = Ended(r, "error")]
          /\ UNCHANGED generatedImage
  /\ UNCHANGED <<fit, draw, rev, apiKey, productImage, originalLogo, processedLogo, prompt,
                 logoSize, logoPosition, removeLogoBg, pending, sent, edits>>
  /\ Render

\* what the event loop and the network do for a request
Resume(r) ==
  \/ \E ok \in BOOLEAN : LogoBlobRead(r, ok)
  \/ \E outcome \in EraseOutcomes : EraseSettled(r, outcome)
  \/ LogoDecoded(r)
  \/ \E hasBlob \in BOOLEAN : BlobReady(r, hasBlob)
  \/ \E outcome \in GenerateOutcomes : GenerateSettled(r, outcome)

UserEdits ==
  \/ \E file \in ProductFiles : SelectFile("product", file)
  \/ \E file \in LogoFiles : SelectFile("logo", file)
  \/ \E value \in SizeValues : SetLogoSize(value)
  \/ \E value \in AnchorXValues : SetLogoPositionX(value)
  \/ \E value \in AnchorYValues : SetLogoPositionY(value)
  \/ \E value \in PromptValues : SetPrompt(value)
  \/ ToggleRemoveLogoBg

FileEvents ==
  \/ \E slot \in {"product", "logo"} : FileLoaded(slot)
  \/ \E slot \in {"product", "logo"} : FileNotDecoded(slot)

\* everything but the trigger of handleGenerate
Background ==
  \/ UserEdits
  \/ FileEvents
  \/ \E r \in Requests : Resume(r)
  \/ \E r \in Requests : LogoNotDecoded(r)

InitSpec == fit = Idle /\ draw = Idle /\ InitPage({"bg", "plain"}, BOOLEAN)

NextFit == CallFit
NextDraw == CallDraw
\* the page as the user drives it: handleGenerate runs on the button's click
Next == ClickGenerate \/ Background
\* handleGenerate called while idle, whether or not both inputs are set
NextCall == CallGenerate \/ Background

SpecFit == InitFit /\ [][NextFit]_vars
SpecDraw == InitDraw /\ [][NextDraw]_vars
Spec == InitSpec /\ [][Next]_vars
SpecCall == InitSpec /\ [][NextCall]_vars
\* the event loop runs a callback that is ready, a fetch settles; whether the
\* erased image decodes and what the user does are not forced
FairSpec == Spec /\ \A r \in Requests : WF_vars(Resume(r))

\* ------------------------------------------------------------------------
\* Exact (real-number) comparisons used to state the claims
\* ------------------------------------------------------------------------
FitDone == "target" \in DOMAIN fit
DrawDone == "preview" \in DOMAIN draw
AbsInt(n) == IF n < 0 THEN -n ELSE n
TableIndex == 1..Len(ALLOWED_DIMENSIONS)
\* |width/height - dim[1]/dim[2]| = DistNum / (height * dim[2])
DistNum(width, height, dim) == AbsInt(width * dim[2] - dim[1] * height)
\* |width/height - d1| <= |width/height - d2|, exactly
NoFarther(width, height, d1, d2) ==
  XLe(XMul(FromInt(DistNum(width, height, d1)), FromInt(d2[2])),
      XMul(FromInt(DistNum(width, height, d2)), FromInt(d1[2])))
\* the indices of the entries at minimal exact distance
Nearest(width, height) ==
  {i \in TableIndex :
     \A j \in TableIndex :
        NoFarther(width, height, ALLOWED_DIMENSIONS[i], ALLOWED_DIMENSIONS[j])}
FirstOf(S) == CHOOSE i \in S : \A j \in S : i <= j

\* C1: for every input, findClosestAllowedSize returns an entry of the table
\* at minimal |width/height - entry.w/entry.h|, and among several such
\* entries the first in table order.
C1_FirstNearestEntry ==
  FitDone =>
     fit.target = ALLOWED_DIMENSIONS[FirstOf(Nearest(fit.width, fit.height))]

\* C2 as stated: a 2000x1000 image is fitted to 1536x640.
C2_Picks1536x640 ==
  (FitDone /\ fit.width = 2000 /\ fit.height = 1000) => fit.target = <<1536, 640>>

\* C2 as amended: a 2000x1000 image (ratio 2.0) is fitted to 1344x768
\* (ratio 1.75, distance 0.25), not to 1536x640 (ratio 2.4, distance 0.4).
C2_Picks1344x768 ==
  (FitDone /\ fit.width = 2000 /\ fit.height = 1000) => fit.target = <<1344, 768>>

\* the 2000x1000 image has been fitted
C2_Witness == FitDone /\ fit.width = 2000 /\ fit.height = 1000

LetterboxInside ==
  /\ XLe(fit.box.newWidth, FromInt(fit.target[1]))
  /\ XLe(fit.box.newHeight, FromInt(fit.target[2]))
LetterboxAspectKept ==
  XMul(fit.box.newWidth, FromInt(fit.height)) = XMul(fit.box.newHeight, FromInt(fit.width))

\* C3: the letterboxed size lies inside the target and keeps the image's
\* aspect ratio: newWidth <= targetWidth, newHeight <= targetHeight and
\* newWidth * imageHeight = newHeight * imageWidth.
C3_LetterboxInsideTarget == FitDone => (LetterboxInside /\ LetterboxAspectKept)

\* the inputs (w2, h2) of the bounded set with w2 * height = h2 * width
SameRatioSides(width, height) ==
  {wh \in {<<w2, (w2 * height) \div width>> : w2 \in Sides} :
     /\ wh[1] * height = wh[2] * width
     /\ wh[2] \in Sides}

\* C7: findClosestAllowedSize depends on the aspect ratio only (every input
\* of the same ratio gets the same entry) and maps the dimensions of the
\* entry it returns to that entry: fit(fit(w, h)) = fit(w, h).
C7_DeterministicIdempotent ==
  FitDone =>
     /\ \A wh \in SameRatioSides(fit.width, fit.height) :
           findClosestAllowedSize(wh[1], wh[2]) = fit.target
     /\ findClosestAllowedSize(fit.target[1], fit.target[2]) = fit.target

\* a call whose ratio another input shares and whose result is not its input
C7_Witness ==
  /\ FitDone
  /\ Cardinality(SameRatioSides(fit.width, fit.height)) > 1
  /\ fit.target # <<fit.width, fit.height>>

\* ------------------------------------------------------------------------
\* The compositor's claims.  Centres, products and differences are exact;
\* "up to rounding" is a relative error of at most 2^-49.
\* ------------------------------------------------------------------------
Hundred == FromInt(100)
Eps == [s |-> 1, m |-> <<1>>, e |-> -49]
Close(a, b, scale) == XLe(XAbs(XSub(a, b)), XMul(Eps, scale))
CentreX(rect) == XAdd(rect.x, XHalf(rect.logoWidth))
CentreY(rect) == XAdd(rect.y, XHalf(rect.logoHeight))

\* 100 * (offsetX + newWidth * x / 100) and the same for y
RegionAnchorX100 ==
  XAdd(XMul(Hundred, draw.box.offsetX), XMul(draw.box.newWidth, FromInt(draw.logoPosition.x)))
RegionAnchorY100 ==
  XAdd(XMul(Hundred, draw.box.offsetY), XMul(draw.box.newHeight, FromInt(draw.logoPosition.y)))

\* C4 as stated: on the preview canvas and on the fitted canvas, the centre
\* of the overlay rectangle is exactly (canvasW * x / 100, canvasH * y / 100).
C4_CentreOnCanvasExact ==
  DrawDone =>
     /\ XMul(Hundred, CentreX(draw.preview)) = FromInt(draw.image.width * draw.logoPosition.x)
     /\ XMul(Hundred, CentreY(draw.preview)) = FromInt(draw.image.height * draw.logoPosition.y)
     /\ XMul(Hundred, CentreX(draw.submit)) = FromInt(draw.target[1] * draw.logoPosition.x)
     /\ XMul(Hundred, CentreY(draw.submit)) = FromInt(draw.target[2] * draw.logoPosition.y)

\* C4 as amended: up to rounding, the centre of the overlay rectangle is
\* (canvasW * x / 100, canvasH * y / 100) on the preview canvas and
\* (offsetX + newWidth * x / 100, offsetY + newHeight * y / 100) on the
\* fitted canvas: there the anchor is relative to the drawn image region.
C4_CentreUpToRounding ==
  DrawDone =>
     /\ Close(XMul(Hundred, CentreX(draw.preview)),
              FromInt(draw.image.width * draw.logoPosition.x),
              XMul(Hundred, XAdd(FromInt(draw.image.width), draw.preview.logoWidth)))
     /\ Close(XMul(Hundred, CentreY(draw.preview)),
              FromInt(draw.image.height * draw.logoPosition.y),
              XMul(Hundred, XAdd(FromInt(draw.image.height), draw.preview.logoHeight)))
     /\ Close(XMul(Hundred, CentreX(draw.submit)), RegionAnchorX100,
              XMul(Hundred, XAdd(FromInt(draw.target[1]), draw.submit.logoWidth)))
     /\ Close(XMul(Hundred, CentreY(draw.submit)), RegionAnchorY100,
              XMul(Hundred, XAdd(FromInt(draw.target[2]), draw.submit.logoHeight)))

\* a fitted canvas with padding above the image and an anchor off its middle
C4_Witness ==
  /\ DrawDone
  /\ draw.box.offsetY # Zero
  /\ draw.logoPosition.y = 80

\* the spec's example: size 15, anchor (75, 80), 1000x1000 canvas, 200x100
\* overlay: width 150, height 75, top-left (675, 762.5)
IsExample ==
  /\ draw.image = [width |-> 1000, height |-> 1000]
  /\ draw.logo = [width |-> 200, height |-> 100]
  /\ draw.logoSize = 15
  /\ draw.logoPosition = [x |-> 75, y |-> 80]
ExampleRect ==
  [x |-> FromInt(675), y |-> XHalf(FromInt(1525)),
   logoWidth |-> FromInt(150), logoHeight |-> FromInt(75)]

\* C5 as stated: the drawn width is exactly canvasWidth * sizePercent / 100,
\* drawnWidth * overlay.height = drawnHeight * overlay.width exactly, and
\* the example gives width 150, height 75, top-left (675, 762.5).
C5_OverlaySizeExact ==
  DrawDone =>
     /\ XMul(Hundred, draw.preview.logoWidth) = FromInt(draw.image.width * draw.logoSize)
     /\ XMul(draw.preview.logoWidth, FromInt(draw.logo.height))
          = XMul(draw.preview.logoHeight, FromInt(draw.logo.width))
     /\ IsExample => draw.preview = ExampleRect

\* C5 as amended: the same up to rounding, the example exactly.
C5_OverlaySizeUpToRounding ==
  DrawDone =>
     /\ Close(XMul(Hundred, draw.preview.logoWidth),
              FromInt(draw.image.width * draw.logoSize),
              FromInt(draw.image.width * draw.logoSize))
     /\ Close(XMul(draw.preview.logoWidth, FromInt(draw.logo.height)),
              XMul(draw.preview.logoHeight, FromInt(draw.logo.width)),
              XMul(draw.preview.logoWidth, FromInt(draw.logo.height)))
     /\ IsExample => draw.preview = ExampleRect

\* the example's overlay has been drawn
C5_Witness == DrawDone /\ IsExample

\* C6 as stated: on submit the overlay's centre is
\* (offsetX + newWidth * x / 100, offsetY + newHeight * y / 100), its width
\* is newWidth * size / 100, and the submitted rectangle is the preview
\* rectangle scaled by ratio and shifted by (offsetX, offsetY), exactly.
C6_SubmitIsScaledPreviewExact ==
  DrawDone =>
     /\ XMul(Hundred, CentreX(draw.submit)) = RegionAnchorX100
     /\ XMul(Hundred, CentreY(draw.submit)) = RegionAnchorY100
     /\ XMul(Hundred, draw.submit.logoWidth) = XMul(draw.box.newWidth, FromInt(draw.logoSize))
     /\ draw.submit.x = XAdd(draw.box.offsetX, XMul(draw.box.ratio, draw.preview.x))
     /\ draw.submit.y = XAdd(draw.box.offsetY, XMul(draw.box.ratio, draw.preview.y))
     /\ draw.submit.logoWidth = XMul(draw.box.ratio, draw.preview.logoWidth)
     /\ draw.submit.logoHeight = XMul(draw.box.ratio, draw.preview.logoHeight)

\* C6 as amended: the same up to rounding.
C6_SubmitIsScaledPreviewUpToRounding ==
  DrawDone =>
     LET scaleX == XAdd(FromInt(draw.target[1]), draw.submit.logoWidth)
         scaleY == XAdd(FromInt(draw.target[2]), draw.submit.logoHeight)
     IN  /\ Close(XMul(Hundred, CentreX(draw.submit)), RegionAnchorX100, XMul(Hundred, scaleX))
         /\ Close(XMul(Hundred, CentreY(draw.submit)), RegionAnchorY100, XMul(Hundred, scaleY))
         /\ Close(XMul(Hundred, draw.submit.logoWidth),
                  XMul(draw.box.newWidth, FromInt(draw.logoSize)),
                  XMul(Hundred, draw.submit.logoWidth))
         /\ Close(draw.submit.x,
                  XAdd(draw.box.offsetX, XMul(draw.box.ratio, draw.preview.x)), scaleX)
         /\ Close(draw.submit.y,
                  XAdd(draw.box.offsetY, XMul(draw.box.ratio, draw.preview.y)), scaleY)
         /\ Close(draw.submit.logoWidth,
                  XMul(draw.box.ratio, draw.preview.logoWidth), draw.submit.logoWidth)
         /\ Close(draw.submit.logoHeight,
                  XMul(draw.box.ratio, draw.preview.logoHeight), draw.submit.logoHeight)

\* a submit whose letterbox scales the image and pads it
C6_Witness ==
  /\ DrawDone
  /\ draw.box.ratio # FromInt(1)
  /\ draw.box.offsetX # Zero
  /\ draw.logoPosition.x # 50

\* ------------------------------------------------------------------------
\* The requests of handleGenerate
\* ------------------------------------------------------------------------
InFlight(r) == reqs[r].pc \notin {"idle", "done"}
SentBy(r, call) == {i \in DOMAIN sent : sent[i].req = r /\ sent[i].call = call}

\* C8: every generation request that has set isLoading to true eventually ends
\* with isLoading reset to false, whatever error it meets (failure to decode
\* the background-removed logo included), and no request issues a call twice.
C8_EveryRequestEnds ==
  /\ \A r \in Requests : InFlight(r) ~> (reqs[r].pc = "done" /\ ~isLoading)
  /\ [](\A r \in Requests :
          Cardinality(SentBy(r, "erase")) <= 1 /\ Cardinality(SentBy(r, "image-to-image")) <= 1)

\* C9: with removeLogoBg set, a request builds its composite and issues the
\* image-to-image call only after its erase call has come back and decoded;
\* the two calls are never outstanding together, the composite (and the image
\* sent) carries the background-removed logo, and after a failed erase call
\* no image-to-image call is issued.
C9_EraseThenComposite ==
  /\ Cardinality(net) <= 1
  /\ \A r \in Requests :
       reqs[r].removeLogoBg =>
         /\ (reqs[r].blob # NoBlob \/ SentBy(r, "image-to-image") # {}) =>
               /\ SentBy(r, "erase") # {}
               /\ <<r, "erase">> \notin net
               /\ reqs[r].eraseResult = "ok"
         /\ \A i \in SentBy(r, "image-to-image") :
               /\ \A j \in SentBy(r, "erase") : j < i
               /\ sent[i].blob.logo.erased
               /\ \A j \in SentBy(r, "erase") : sent[i].blob.logo.id = sent[j].blob.logo.id
         /\ reqs[r].blob # NoBlob =>
               /\ reqs[r].blob.logo.erased
               /\ reqs[r].blob.logo.id = reqs[r].originalLogo.id
         /\ reqs[r].eraseResult = "failed" => SentBy(r, "image-to-image") = {}

\* a request of "bg" with removeLogoBg set has gone through both calls and succeeded
C9_Witness ==
  \E r \in Requests :
     /\ reqs[r].removeLogoBg /\ reqs[r].outcome = "success"
     /\ SentBy(r, "erase") # {} /\ SentBy(r, "image-to-image") # {}
     /\ generatedImage = GeneratedDataUrl

\* no fetch without an API key, none carrying a missing image
C10_NothingSent ==
  /\ ~apiKey => sent = <<>> /\ net = {}
  /\ \A i \in DOMAIN sent : sent[i].blob.logo # NoImage
  /\ \A i \in DOMAIN sent : sent[i].call = "image-to-image" => sent[i].blob.image # NoImage
\* what a step that starts or ends a call of handleGenerate does
C10_CallStep ==
  \A r \in Requests :
     /\ (reqs[r].pc = "idle" /\ reqs'[r].pc # "idle"
           /\ (productImage = NoImage \/ originalLogo = NoImage)) =>
          /\ reqs'[r].pc = "done"
          /\ error' # NoError /\ error'.msg # ""
          /\ ~isLoading' /\ generatedImage' = ""
          /\ UNCHANGED <<isLoading, generatedImage, sent, net>>
     /\ (reqs[r].pc # "done" /\ reqs'[r].pc = "done" /\ ~apiKey) =>
          /\ error' # NoError /\ error'.msg # ""
          /\ ~isLoading' /\ generatedImage' = ""
          /\ UNCHANGED <<sent, net>>
     /\ (reqs[r].pc = "idle" /\ reqs'[r].pc # "idle" /\ ~apiKey) =>
          reqs'[r].pc = "done" \/ (rev = "plain" /\ reqs'[r].pc = "toBlob")

\* C10: a call of handleGenerate with the product image or the logo missing,
\* or without an API key, issues no network request and ends with a non-empty
\* error, isLoading false and no generated image; with an input missing,
\* isLoading and generatedImage are what they were before the call.
C10_MissingInputOrKey == []C10_NothingSent /\ [][C10_CallStep]_vars

\* one call has ended on the missing-input path and one on the missing-key path
C10_Witness ==
  \E r1, r2 \in Requests :
     /\ reqs[r1].outcome = "missingInput"
     /\ reqs[r2].outcome = "missingKey"
     /\ error = MissingKeyError /\ ~isLoading /\ generatedImage = ""


\* an upstream failure: a response with a non-success status, or a success
\* status whose first artifact's finishReason is not "SUCCESS"
UpstreamFailure(response) ==
  /\ response.kind = "response"
  /\ \/ ~response.ok
     \/ response.finishReason \notin {"", "SUCCESS"}

\* C11: when the erase call or the image-to-image call comes back with an
\* upstream failure, the error shown carries the response's text verbatim and
\* generatedImage stays empty; generatedImage becomes non-empty only on an OK
\* response whose finishReason is "SUCCESS".
C11_UpstreamTextSurfaced ==
  [][/\ \A r \in Requests :
          /\ \A response \in EraseOutcomes :
                (EraseSettled(r, response) /\ UpstreamFailure(response)) =>
                   (error'.text = response.text /\ generatedImage' = "")
          /\ \A response \in GenerateOutcomes :
                (GenerateSettled(r, response) /\ UpstreamFailure(response)) =>
                   (error'.text = response.text /\ generatedImage' = "")
     /\ (generatedImage = "" /\ generatedImage' # "") =>
          \E r \in Requests : GenerateSettled(r, Succeeded)
    ]_vars


\* C12: while a request is outstanding isLoading is true, so the button is
\* disabled, and under any sequence of user events at most one request is in
\* flight: a request starts only when none is.
C12_OneRequestInFlight ==
  /\ \A r \in Requests : InFlight(r) => isLoading
  /\ Cardinality({r \in Requests : InFlight(r)}) <= 1
  /\ \A r \in Requests :
       InFlight(r) => \A q \in Requests : q # r => (q < r <=> reqs[q].pc = "done")

\* a second request is waiting for its fetch after the first one has ended
C12_Witness ==
  \E r, q \in Requests :
     /\ reqs[q].pc = "done" /\ reqs[q].outcome = "error"
     /\ reqs[r].pc = "generate" /\ isLoading


\* the page's state a call of handleGenerate reads
UiState ==
  [productImage |-> productImage, originalLogo |-> originalLogo, logoSize |-> logoSize,
   logoPosition |-> logoPosition, prompt |-> prompt, removeLogoBg |-> removeLogoBg]
\* the same fields of a request
CapturedState(req) ==
  [productImage |-> req.productImage, originalLogo |-> req.originalLogo,
   logoSize |-> req.logoSize, logoPosition |-> req.logoPosition, prompt |-> req.prompt,
   removeLogoBg |-> req.removeLogoBg]
\* the composite of the captured state: the captured logo, background-removed
\* if removal was asked for, over the captured image
CapturedComposite(req) ==
  [image |-> req.productImage,
   logo |-> IF req.removeLogoBg THEN [req.originalLogo EXCEPT !.erased = TRUE]
            ELSE req.originalLogo,
   logoSize |-> req.logoSize, logoPosition |-> req.logoPosition]
\* the blob and the fetches of a request in flight come from what it captured
SubmitsCaptured ==
  \A r \in Requests :
     InFlight(r) =>
       /\ reqs[r].blob # NoBlob => reqs[r].blob = CapturedComposite(reqs[r])
       /\ \A i \in SentBy(r, "erase") : sent[i].blob.logo = reqs[r].originalLogo
       /\ \A i \in SentBy(r, "image-to-image") :
             sent[i].blob = CapturedComposite(reqs[r]) /\ sent[i].prompt = reqs[r].prompt
\* a call captures the page's state, and nothing changes what a request in
\* flight has captured, built or sent
CaptureStep ==
  /\ \A r \in Requests :
       /\ (reqs[r].pc = "idle" /\ reqs'[r].pc \notin {"idle", "done"}) =>
             CapturedState(reqs'[r]) = UiState
       /\ (InFlight(r) /\ reqs'[r].pc \notin {"idle", "done"}) =>
             /\ CapturedState(reqs'[r]) = CapturedState(reqs[r])
             /\ reqs[r].blob # NoBlob => reqs'[r].blob = reqs[r].blob
  /\ \A i \in DOMAIN sent : i \in DOMAIN sent' /\ sent'[i] = sent[i]

\* C13: a request builds its composite, and fills its form fields, from the
\* product image, logo, logoSize, logoPosition, prompt and removeLogoBg as they
\* were when it was triggered; edits and uploads made while it is suspended
\* change nothing of what it submits.
C13_SubmitsStateAtTrigger == []SubmitsCaptured /\ [][CaptureStep]_vars

\* the image-to-image call of a request with background removal is out, and
\* the page's logoSize or logoPosition is no longer the one it was triggered with
C13_Witness ==
  \E r \in Requests :
     /\ reqs[r].pc = "generate" /\ reqs[r].removeLogoBg
     /\ SentBy(r, "image-to-image") # {}
     /\ (logoSize # reqs[r].logoSize \/ logoPosition # reqs[r].logoPosition)


\* the preview is on screen: a product image is set and the canvas is rendered
PreviewDisplayed == productImage # NoImage /\ ~isLoading /\ generatedImage = ""

\* C14: whenever the preview canvas is displayed, it shows the composite of
\* the current product image, the current logo, logoSize and logoPosition,
\* also after the canvas element was unmounted and mounted again.
C14_PreviewShowsCurrent ==
  PreviewDisplayed =>
     /\ canvas.state = "drawn"
     /\ canvas.content =
          [image |-> productImage,
           logo |-> IF processedLogo # NoImage THEN processedLogo ELSE originalLogo,
           logoSize |-> logoSize, logoPosition |-> logoPosition]


\* C15: in the revision with background removal, processedLogo is always the
\* current originalLogo or its background-removed version: an erase result
\* that arrives after another logo was uploaded does not replace the
\* processedLogo of the newer upload.
C15_ProcessedLogoIsCurrent ==
  rev = "bg" =>
     \/ processedLogo = originalLogo
     \/ processedLogo = [originalLogo EXCEPT !.erased = TRUE]

=============================================================================
